---- MODULE Spec2Model ----
(***************************************************************************)
(* Model of inference_realesrgan_video.py: main, get_frames, the file-mode *)
(* pipeline (inference_frames: prefetch reader, enhancement loop, consumer *)
(* pool, remux, cleanup) and the stream-mode pipeline (inference_stream).  *)
(*                                                                         *)
(* Strings are sequences of tokens.  A token stands for a run of           *)
(* characters that holds no "." and no "/" and is never split by the       *)
(* program; "." and "/" are tokens of their own, so that os.path.splitext, *)
(* os.path.basename, extension[1:] and the f-strings are computed as the   *)
(* code computes them.                                                     *)
(***************************************************************************)
EXTENDS Integers, Sequences, FiniteSets, TLC

\* ------------------------------------------------------------------ bounds
\* Most frames a video holds / a directory lists / the decoder emits.
MaxFrames == 2
\* Largest --consumer value explored (0 .. MaxConsumer).
MaxConsumer == 2

\* ------------------------------------------------------- program constants
\* PrefetchReader(paths, num_prefetch_queue=4)
PrefetchCap == 4
\* args.fps = 24 when neither given nor probed
DefaultFps == 24

\* ------------------------------------------------------------------ strings
Dot == "."
Sep == "/"
None == "None"
\* a local variable that no assignment has reached
Unbound == <<"<unbound>">>
\* args.fps when --fps is absent; a given or resolved rate r is <<r>>
NoFps == <<>>

Max(S) == CHOOSE x \in S : \A y \in S : y <= x

\* Code-point order of the tokens' first characters: '.' < '/' < '_' < letters.
TokenRank(t) ==
    CASE t = "."       -> 1
      [] t = "/"       -> 2
      [] t = "_out"    -> 3
      [] t = "a"       -> 4
      [] t = "b"       -> 5
      [] t = "clip"    -> 6
      [] t = "frame1"  -> 7
      [] t = "frame2"  -> 8
      [] t = "frame3"  -> 9
      [] t = "frames"  -> 10
      [] t = "frames_tmpout" -> 11
      [] t = "inputs"  -> 12
      [] t = "jpg"     -> 13
      [] t = "mp4"     -> 14
      [] t = "png"     -> 15
      [] t = "results" -> 16
      [] t = "tmp_frames" -> 17
      [] t = "txt"     -> 18
      [] OTHER         -> 19

\* s < t as Python compares two strings.
RECURSIVE StrLess(_, _)
StrLess(s, t) ==
    IF t = <<>> THEN FALSE
    ELSE IF s = <<>> THEN TRUE
    ELSE IF Head(s) = Head(t) THEN StrLess(Tail(s), Tail(t))
    ELSE TokenRank(Head(s)) < TokenRank(Head(t))

\* sorted(S) of a set of strings.
RECURSIVE Sorted(_)
Sorted(S) ==
    IF S = {} THEN <<>>
    ELSE LET m == CHOOSE x \in S : \A y \in S \ {x} : StrLess(x, y)
         IN  <<m>> \o Sorted(S \ {m})

\* os.path.join(a, b)
Join(a, b) == a \o <<Sep>> \o b

\* os.path.basename(p): what follows the last separator.
Basename(p) ==
    LET seps == { i \in 1..Len(p) : p[i] = Sep }
    IN  IF seps = {} THEN p ELSE SubSeq(p, Max(seps) + 1, Len(p))

\* os.path.splitext(n) of a basename: <<root, ext>>, split at the last dot that
\* is not a leading one; ext is empty or starts with the dot.
SplitExt(n) ==
    LET lead == { i \in 1..Len(n) : \A j \in 1..i : n[j] = Dot }
        dots == { i \in 1..Len(n) : n[i] = Dot /\ i \notin lead }
    IN  IF dots = {} THEN <<n, <<>>>>
        ELSE <<SubSeq(n, 1, Max(dots) - 1), SubSeq(n, Max(dots), Len(n))>>

\* s[1:]
DropFirst(s) == IF s = <<>> THEN <<>> ELSE Tail(s)

\* mimetypes.guess_type(name)[0], reduced to its major type: decided by the
\* name's extension alone; None when the name has no known extension.
GuessType(name) ==
    LET ext == SplitExt(Basename(name))[2]
    IN  CASE ext = <<Dot, "mp4">> -> "video"
          [] ext = <<Dot, "png">> -> "image"
          [] ext = <<Dot, "jpg">> -> "image"
          [] ext = <<Dot, "txt">> -> "text"
          [] OTHER                -> None

\* ------------------------------------------------------------------- inputs
\* Values of -i explored: a video, an image, a folder with a plain name, and
\* a folder whose name carries an extension mimetypes knows.
Inputs == { <<"clip", Dot, "mp4">>, <<"a", Dot, "png">>, <<"inputs">>,
            <<"frames", Dot, "txt">> }
\* The inputs that are folders of frames on disk.
IsFolder(input) == input \in { <<"inputs">>, <<"frames", Dot, "txt">> }
\* File names a folder of frames may hold.
DirNames == { <<"a", Dot, "jpg">>, <<"a", Dot, "png">>, <<"b", Dot, "png">> }
\* --ext: auto | jpg | png
ExtChoices == { <<"auto">>, <<"jpg">>, <<"png">> }
\* --fps: absent, or a given value
FpsChoices == { NoFps, <<30>> }
\* -s/--outscale, a float: the ratios <<numerator, denominator>> 2 and 1.5
OutscaleChoices == { <<2, 1>>, <<3, 2>> }
\* <<width, height>> of the source, from the probe or from the first image
SizeChoices == { <<4, 2>>, <<5, 3>> }
\* avg_frame_rate values the probe of the container may report
ProbeChoices == { <<25>> }
\* -o, default 'results'
OutputDir == <<"results">>

\* frame%08d.png as ffmpeg numbers the extracted frames
FrameName(n) ==
    CASE n = 1 -> <<"frame1", Dot, "png">>
      [] n = 2 -> <<"frame2", Dot, "png">>
      [] OTHER -> <<"frame3", Dot, "png">>

VARIABLES
    args,       \* the parsed command line: input, stream, ext, consumer, fps
    ffmpegOk,   \* the external ffmpeg/ffprobe binaries can be run
    pc,         \* position of the main thread
    error,      \* the exception that ended the run (type, at), or NoError
    is_video,   \* get_frames' first result
    paths,      \* get_frames' second result
    scratch,    \* the scratch folders that exist: "tmp_frames", "frames_tmpout"
    reader,     \* PrefetchReader: loaded (frames read so far), que, ended
    idx,        \* frames taken by the enhancement loop so far
    cur,        \* the frame being processed: path, img, imgname, img_mode
    extension,  \* the local variable `extension` of inference_frames
    que,        \* the result queue
    cons,       \* the consumers: st in idle/busy/done, and the held message
    files,      \* the files of the output folder: [path, buf]
    log,        \* history: puts on que, engine outcomes, writes, the names
                \* get_frames found in the input folder, the lines printed,
                \* the calls of the main thread on engine, timer and pipes
    remux,      \* outcome of the merge command: "none", "ok", "fail"
    stream      \* stream mode: decoder, encoder, frames read, frames written,
                \* the source's width and height, args.outscale (read by this
                \* mode's arithmetic only), the size the encoder was given

vars == <<args, ffmpegOk, pc, error, is_video, paths, scratch, reader, idx, cur,
          extension, que, cons, files, log, remux, stream>>

\* video_name = os.path.splitext(os.path.basename(args.input))[0]
VideoName(a) == SplitExt(Basename(a.input))[1]
\* frame_folder = os.path.join('tmp_frames', video_name)
FrameFolder(a) == Join(<<"tmp_frames">>, VideoName(a))
\* save_frame_folder = os.path.join(args.output, video_name, 'frames_tmpout')
SaveFrameFolder(a) == Join(Join(OutputDir, VideoName(a)), <<"frames_tmpout">>)

\* ---------------------------------------------------------------- get_frames
\* The first test of get_frames: mimetypes.guess_type(args.input)[0] is None for
\* a name without a known extension, and None has no startswith.
Classify(a) ==
    LET t == GuessType(a.input)
    IN  IF t = None THEN "AttributeError"
        ELSE IF t = "video" THEN "video"
        ELSE IF t = "image" THEN "image"
        ELSE "dir"

\* sorted(glob.glob(os.path.join(folder, '*'))) over the names the folder holds
GlobSorted(folder, names) == Sorted({ Join(folder, n) : n \in names })

\* C12's mutant: the probe of a video overwrites a given --fps.
ResolveFpsProbeAlways(fps, kind, probed) ==
    LET p == IF kind = "video" THEN probed ELSE fps
    IN  IF p = NoFps THEN <<DefaultFps>> ELSE p

\* args.fps when get_frames returns: lines 34-38 probe a video when no rate
\* was given, lines 45-46 fall back to the default.
ResolveFps(fps, kind, probed) ==
    LET p == IF kind = "video" /\ fps = NoFps THEN probed ELSE fps
    IN  IF p = NoFps THEN <<DefaultFps>> ELSE p

\* get_frames(args, extract_frames) as a function of what it finds outside:
\* nvideo frames in the video, the names in the input folder, whether the
\* external binaries run, the frame rate a probe reports.  The result
\* holds the exception raised (or None), is_video, paths, args.fps on return,
\* and whether tmp_frames/<video_name> was created.
GetFramesResult(a, extract_frames, nvideo, names, binOk, probed) ==
    LET kind == Classify(a)
        fail(e, made) == [err |-> e, is_video |-> (kind = "video"), paths |-> <<>>,
                          fps |-> a.fps, made |-> made]
    IN  CASE kind = "AttributeError" -> fail("AttributeError", FALSE)
          [] kind = "video" ->
                LET n  == IF binOk THEN nvideo ELSE 0
                    ps == IF extract_frames
                          THEN GlobSorted(FrameFolder(a), { FrameName(i) : i \in 1..n })
                          ELSE <<>>
                IN  IF a.fps = NoFps /\ ~binOk
                    THEN fail("FileNotFoundError", extract_frames)
                    ELSE [err |-> None, is_video |-> TRUE, paths |-> ps,
                          fps |-> ResolveFps(a.fps, kind, probed),
                          made |-> extract_frames]
          [] kind = "image" ->
                [err |-> None, is_video |-> FALSE, paths |-> <<a.input>>,
                 fps |-> ResolveFps(a.fps, kind, probed), made |-> FALSE]
          [] OTHER ->
                LET ps == GlobSorted(a.input, names)
                IN  IF Len(ps) > 0
                    THEN [err |-> None, is_video |-> FALSE, paths |-> ps,
                          fps |-> ResolveFps(a.fps, kind, probed),
                          made |-> FALSE]
                    ELSE fail("AssertionError", FALSE)

\* --------------------------------------------------------------------- Init
NoFrame == [path |-> <<>>, img |-> [src |-> 0, alpha |-> FALSE], imgname |-> <<>>,
            img_mode |-> None]
NoMsg == [kind |-> "none"]
NoError == [type |-> None, at |-> None]
Quit == [kind |-> "quit"]

Init ==
    /\ args \in [input : Inputs, stream : BOOLEAN, ext : ExtChoices,
                 consumer : 0..MaxConsumer, fps : FpsChoices]
    /\ ffmpegOk \in BOOLEAN
    /\ pc = "main"
    /\ error = NoError
    /\ is_video = FALSE
    /\ paths = <<>>
    /\ scratch = {}
    /\ reader = [loaded |-> 0, que |-> <<>>, ended |-> FALSE, started |-> FALSE]
    /\ idx = 0
    /\ cur = NoFrame
    /\ extension = Unbound
    /\ que = <<>>
    /\ cons = <<>>
    /\ files = {}
    /\ log = [puts |-> <<>>, outcomes |-> <<>>, writes |-> <<>>, listed |-> {},
              printed |-> <<>>, events |-> <<>>]
    /\ remux = "none"
    /\ stream = [decoder |-> "none", encoder |-> "none", nread |-> 0,
                 written |-> <<>>, img |-> 0, width |-> 0, height |-> 0,
                 outscale |-> <<1, 1>>, out_width |-> 0, out_height |-> 0]

\* An exception leaves the function and ends the run; `at` keeps where it rose.
Raise(e) == pc' = "failed" /\ error' = [type |-> e, at |-> pc]

\* ------------------------------------------------------------------- main
\* main() up to the mode switch: the weights file is looked up in the two
\* folders; a missing file raises ValueError.
MainSetup ==
    /\ pc = "main"
    /\ \E weights \in BOOLEAN :
          IF weights THEN pc' = "get_frames" /\ error' = error
          ELSE Raise("ValueError")
    /\ UNCHANGED <<args, ffmpegOk, is_video, paths, scratch, reader, idx, cur,
                   extension, que, cons, files, log, remux, stream>>

\* is_video, paths = get_frames(args, extract_frames = not args.stream)
GetFrames ==
    /\ pc = "get_frames"
    /\ \E nvideo \in 0..MaxFrames, probed \in ProbeChoices,
          names \in { S \in SUBSET DirNames : Cardinality(S) <= MaxFrames } :
          LET r == GetFramesResult(args, ~args.stream, nvideo, names, ffmpegOk, probed)
          IN  /\ args' = [args EXCEPT !.fps = r.fps]
              /\ is_video' = r.is_video
              /\ paths' = r.paths
              /\ scratch' = IF r.made THEN scratch \cup {"tmp_frames"} ELSE scratch
              /\ log' = [log EXCEPT !.listed = IF IsFolder(args.input)
                                                 THEN names ELSE {}]
              /\ IF r.err # None THEN Raise(r.err)
                 ELSE /\ pc' = IF args.stream THEN "s_setup" ELSE "f_setup"
                      /\ error' = error
    /\ UNCHANGED <<ffmpegOk, reader, idx, cur, extension, que, cons, files,
                   remux, stream>>

\* ------------------------------------------------- PrefetchReader, IOConsumer
\* The reader thread: loads the next path's pixels and puts them on its
\* queue of capacity PrefetchCap; blocks while the queue is full.
End == [end |-> TRUE]
ReaderLoad ==
    /\ reader.started /\ reader.loaded < Len(paths)
    /\ Len(reader.que) < PrefetchCap
    /\ \E alpha \in BOOLEAN :
          reader' = [reader EXCEPT !.loaded = @ + 1,
                        !.que = Append(@, [src |-> reader.loaded + 1, alpha |-> alpha])]
    /\ UNCHANGED <<args, ffmpegOk, pc, error, is_video, paths, scratch, idx, cur,
                   extension, que, cons, files, log, remux, stream>>

\* After the last path the reader marks the end of the sequence and stops.
ReaderEnd ==
    /\ reader.started /\ reader.loaded = Len(paths) /\ ~reader.ended
    /\ Len(reader.que) < PrefetchCap
    /\ reader' = [reader EXCEPT !.ended = TRUE, !.que = Append(@, End)]
    /\ UNCHANGED <<args, ffmpegOk, pc, error, is_video, paths, scratch, idx, cur,
                   extension, que, cons, files, log, remux, stream>>

\* C16's mutant: a last-in first-out queue (queue.LifoQueue).
QuePutFront(q, m) == <<m>> \o q

\* Line 154, que = queue.Queue(): a first-in first-out queue, put() adds at
\* the end that get() reaches last.
QuePut(q, m) == Append(q, m)

\* A consumer pops one item; the sentinel makes it exit.
ConsumerGet(c) ==
    /\ c \in DOMAIN cons /\ cons[c].st = "idle"
    /\ que # <<>>
    /\ que' = Tail(que)
    /\ cons' = [cons EXCEPT ![c] = IF Head(que) = Quit
                                    THEN [st |-> "done", msg |-> NoMsg]
                                    ELSE [st |-> "busy", msg |-> Head(que)]]
    /\ UNCHANGED <<args, ffmpegOk, pc, error, is_video, paths, scratch, reader, idx,
                   cur, extension, files, log, remux, stream>>

\* A consumer persists the buffer it holds to its save path.
ConsumerWrite(c) ==
    /\ c \in DOMAIN cons /\ cons[c].st = "busy"
    /\ files' = { f \in files : f.path # cons[c].msg.save_path }
                  \cup { [path |-> cons[c].msg.save_path, buf |-> cons[c].msg.output] }
    /\ log' = [log EXCEPT !.writes = Append(@, [src |-> cons[c].msg.output,
                                                  path |-> cons[c].msg.save_path,
                                                  by |-> c])]
    /\ cons' = [cons EXCEPT ![c] = [st |-> "idle", msg |-> NoMsg]]
    /\ UNCHANGED <<args, ffmpegOk, pc, error, is_video, paths, scratch, reader, idx,
                   cur, extension, que, remux, stream>>

\* ---------------------------------------------------------- inference_frames
\* makedirs(save_frame_folder); reader.start(); the consumers are started.
FramesSetup ==
    /\ pc = "f_setup"
    /\ scratch' = scratch \cup {"frames_tmpout"}
    /\ reader' = [reader EXCEPT !.started = TRUE]
    /\ cons' = [c \in 1..args.consumer |-> [st |-> "idle", msg |-> NoMsg]]
    /\ pc' = "f_loop"
    /\ UNCHANGED <<args, ffmpegOk, error, is_video, paths, idx, cur, extension, que,
                   files, log, remux, stream>>

\* The path zip() pairs with the reader's i-th frame (C7's mutant: the
\* iterator over paths is restarted at every frame).
ZipPathFirst(i) == paths[1]
ZipPath(i) == paths[i]

\* for idx, (path, img) in enumerate(zip(paths, reader)): zip takes the next
\* path, then the reader's next frame (blocking while its queue is empty);
\* imgname, extension and img_mode are set from them.
FramesNext ==
    /\ pc = "f_loop"
    /\ IF idx = Len(paths)
       THEN /\ pc' = "f_quit"
            /\ UNCHANGED <<reader, idx, cur, extension>>
       ELSE /\ reader.que # <<>>
            /\ reader' = [reader EXCEPT !.que = Tail(@)]
            /\ IF Head(reader.que) = End
               THEN /\ pc' = "f_quit"
                    /\ UNCHANGED <<idx, cur, extension>>
               ELSE LET path == ZipPath(idx + 1)
                        img  == Head(reader.que)
                        se   == SplitExt(Basename(path))
                    IN  /\ idx' = idx + 1
                        /\ cur' = [path |-> path, img |-> img, imgname |-> se[1],
                                   img_mode |-> IF img.alpha THEN "RGBA" ELSE None]
                        /\ extension' = se[2]
                        /\ pc' = "f_enhance"
    /\ UNCHANGED <<args, ffmpegOk, error, is_video, paths, scratch, que, cons,
                   files, log, remux, stream>>

\* C6's mutant: the RGBA test comes first and --ext overrides it.
ResolveExtensionNoAlpha(a, ext, img_mode) ==
    LET e == IF img_mode = "RGBA" THEN <<"png">> ELSE DropFirst(ext)
    IN  IF a.ext = <<"auto">> THEN e ELSE a.ext

\* Lines 176-181: the extension the frame is saved under.
ResolveExtension(a, ext, img_mode) ==
    LET e == IF a.ext = <<"auto">> THEN DropFirst(ext) ELSE a.ext
    IN  IF img_mode = "RGBA" THEN <<"png">> ELSE e

\* save_path = os.path.join(save_frame_folder, f'{imgname}_out.{extension}')
SavePath(a, imgname, ext) == Join(SaveFrameFolder(a), imgname \o <<"_out", Dot>> \o ext)

\* What the engine returns for a frame: a deterministic function of its pixels.
Enhanced(img) == img.src

\* What the except branch prints (lines 172-173 and 124-125), one line per
\* print call, each the sequence of the strings printed: 'Error' and the
\* text of the RuntimeError, which the engine builds from the pixels alone,
\* then the advice.
ErrorLines ==
    << << <<"Error">>, <<"CUDA out of memory">> >>,
       << <<"If you encounter CUDA out of memory, try to set --tile with a smaller number.">> >> >>

\* Whether the frame's result is put on the queue, by the engine's outcome:
\* the put sits in the else branch of the try (C2's mutant: it follows the try).
EmitsResultAlways(ok) == TRUE
EmitsResult(ok) == ok

\* The try block: the engine returns or raises RuntimeError; only a returned
\* output becomes a record on the result queue.
FramesEnhance ==
    /\ pc = "f_enhance"
    /\ \E ok \in BOOLEAN :
          IF EmitsResult(ok)
          THEN LET e == ResolveExtension(args, extension, cur.img_mode)
                   m == [kind |-> "rec", output |-> Enhanced(cur.img),
                         save_path |-> SavePath(args, cur.imgname, e)]
               IN  /\ extension' = e
                   /\ que' = QuePut(que, m)
                   /\ log' = [log EXCEPT !.puts = Append(@, m),
                                         !.outcomes = Append(@, IF ok THEN "ok"
                                                                       ELSE "fail"),
                                         !.events = Append(@, "enhance")]
          ELSE /\ log' = [log EXCEPT !.outcomes = Append(@, "fail"),
                                     !.printed = @ \o ErrorLines,
                                     !.events = Append(@, "enhance")]
               /\ UNCHANGED <<extension, que>>
    /\ pc' = "f_sync"
    /\ UNCHANGED <<args, ffmpegOk, error, is_video, paths, scratch, reader, idx,
                   cur, cons, files, remux, stream>>

\* C14's mutant: the timer is read before the accelerator is drained.
AfterFrameTimerFirst == <<"update", "record", "synchronize">>

\* Lines 186-188, the calls that end an iteration in file mode:
\* pbar.update(1); torch.cuda.synchronize(); timer.record()
AfterFrame == <<"update", "synchronize", "record">>

FramesSync ==
    /\ pc = "f_sync"
    /\ log' = [log EXCEPT !.events = @ \o AfterFrame]
    /\ pc' = "f_loop"
    /\ UNCHANGED <<args, ffmpegOk, error, is_video, paths, scratch, reader, idx,
                   cur, extension, que, cons, files, remux, stream>>

\* How many sentinels the loop of line 192 puts (C1's mutant: one short).
NumSentinelsShort == args.consumer - 1
NumSentinels == args.consumer

QuitsPut == Cardinality({ i \in 1..Len(log.puts) : log.puts[i] = Quit })

\* for _ in range(args.consumer): que.put('quit')
FramesPutQuit ==
    /\ pc = "f_quit"
    /\ IF QuitsPut < NumSentinels
       THEN /\ que' = QuePut(que, Quit)
            /\ log' = [log EXCEPT !.puts = Append(@, Quit)]
            /\ pc' = pc
       ELSE /\ pc' = "f_join"
            /\ UNCHANGED <<que, log>>
    /\ UNCHANGED <<args, ffmpegOk, error, is_video, paths, scratch, reader, idx,
                   cur, extension, cons, files, remux, stream>>

\* for consumer in consumers: consumer.join()
FramesJoin ==
    /\ pc = "f_join"
    /\ \A c \in DOMAIN cons : cons[c].st = "done"
    /\ pc' = "f_merge"
    /\ UNCHANGED <<args, ffmpegOk, error, is_video, paths, scratch, reader, idx,
                   cur, extension, que, cons, files, log, remux, stream>>

\* The first file the pattern frame%08d_out.{extension} names.
MergePattern(a, ext) == Join(SaveFrameFolder(a), <<"frame1", "_out", Dot>> \o ext)

\* os.system(ffmpeg ... frame%08d_out.{extension} ...): the f-string reads
\* `extension` (NameError when the loop never ran); the exit status of the
\* command is dropped.  The command can succeed only when ffmpeg runs and
\* finds the frames the pattern names.
FramesMerge ==
    /\ pc = "f_merge"
    /\ IF extension = Unbound
       THEN Raise("NameError") /\ remux' = remux
       ELSE /\ \E r \in {"ok", "fail"} :
                 /\ r = "ok" => /\ ffmpegOk
                                /\ \E f \in files : f.path = MergePattern(args, extension)
                 /\ remux' = r
            /\ pc' = "f_clean"
            /\ error' = error
    /\ UNCHANGED <<args, ffmpegOk, is_video, paths, scratch, reader, idx, cur,
                   extension, que, cons, files, log, stream>>

\* shutil.rmtree(save_frame_folder); rmtree(frame_folder) if it is a folder
FramesCleanup ==
    /\ pc = "f_clean"
    /\ files' = {}
    /\ scratch' = scratch \ {"frames_tmpout", "tmp_frames"}
    /\ pc' = "done"
    /\ UNCHANGED <<args, ffmpegOk, error, is_video, paths, reader, idx, cur,
                   extension, que, cons, log, remux, stream>>

\* ---------------------------------------------------------- inference_stream
\* Python's round(x * s): to the nearest integer, halves to the even one
\* (C17's mutant and the arithmetic the specification names).
OutSizeRound(x, s) ==
    LET q == (x * s[1]) \div s[2]
        r == (x * s[1]) % s[2]
    IN  IF 2 * r < s[2] THEN q
        ELSE IF 2 * r > s[2] THEN q + 1
        ELSE IF q % 2 = 0 THEN q ELSE q + 1

\* Line 83: int(x * args.outscale), the product cut off at the decimal
\* point; x and the scale are positive.
OutSize(x, s) == (x * s[1]) \div s[2]

\* Lines 59-104: a video is probed and its decoder started; otherwise the
\* first path is opened for its size; then the encoder is started.  Probe
\* and run_async raise when the external binary cannot be run.
StreamSetup ==
    /\ pc = "s_setup"
    /\ IF ~ffmpegOk
       THEN Raise("FileNotFoundError") /\ UNCHANGED <<stream, idx>>
       ELSE /\ \E size \in SizeChoices, s \in OutscaleChoices :
                  stream' = [stream EXCEPT
                                !.decoder = IF is_video THEN "open" ELSE "none",
                                !.encoder = "open",
                                !.width = size[1], !.height = size[2],
                                !.outscale = s,
                                !.out_width = OutSize(size[1], s),
                                !.out_height = OutSize(size[2], s)]
            /\ idx' = 0
            /\ pc' = "s_loop"
            /\ error' = error
    /\ UNCHANGED <<args, ffmpegOk, is_video, paths, scratch, reader, cur,
                   extension, que, cons, files, log, remux>>

\* The head of the while loop.  Video: decoder.stdout.read(width*height*3)
\* returns a whole frame, nothing (end of stream) or fewer bytes (reshape then
\* raises ValueError).  Otherwise: the next path is read, until idx reaches
\* len(paths).
StreamRead ==
    /\ pc = "s_loop"
    /\ IF is_video
       THEN \E r \in {"full", "empty", "short"} :
               /\ r = "full" => stream.nread < MaxFrames
               /\ CASE r = "full"  -> /\ stream' = [stream EXCEPT !.nread = @ + 1,
                                                                 !.img = stream.nread + 1]
                                      /\ pc' = "s_enhance" /\ error' = error
                    [] r = "empty" -> /\ pc' = "s_close" /\ error' = error
                                      /\ stream' = stream
                    [] OTHER       -> Raise("ValueError") /\ stream' = stream
               /\ log' = [log EXCEPT !.events = IF r = "empty" THEN Append(@, "break")
                                                               ELSE @]
               /\ idx' = idx
       ELSE IF idx >= Len(paths)
            THEN /\ pc' = "s_close"
                 /\ log' = [log EXCEPT !.events = Append(@, "break")]
                 /\ UNCHANGED <<error, stream, idx>>
            ELSE /\ stream' = [stream EXCEPT !.nread = @ + 1, !.img = idx + 1]
                 /\ idx' = idx + 1
                 /\ pc' = "s_enhance" /\ UNCHANGED <<error, log>>
    /\ UNCHANGED <<args, ffmpegOk, is_video, paths, scratch, reader, cur,
                   extension, que, cons, files, remux>>

\* Whether the stream loop writes a frame to the encoder, by the engine's
\* outcome: the write sits in the else branch of the try.
StreamWrites(ok) == ok

\* Lines 118-128: the engine returns or raises RuntimeError; a returned
\* output is written to encoder.stdin.
StreamEnhance ==
    /\ pc = "s_enhance"
    /\ \E ok \in BOOLEAN :
          /\ stream' = [stream EXCEPT !.written = IF StreamWrites(ok)
                                                   THEN Append(@, stream.img) ELSE @]
          /\ log' = [log EXCEPT !.outcomes = Append(@, IF ok THEN "ok" ELSE "fail"),
                                !.printed = IF ok THEN @ ELSE @ \o ErrorLines,
                                !.events = @ \o <<"enhance">>
                                             \o IF StreamWrites(ok) THEN <<"write">>
                                                                    ELSE <<>>]
    /\ pc' = "s_sync"
    /\ UNCHANGED <<args, ffmpegOk, error, is_video, paths, scratch, reader, idx,
                   cur, extension, que, cons, files, remux>>

\* Line 130: torch.cuda.synchronize()
StreamSync ==
    /\ pc = "s_sync"
    /\ log' = [log EXCEPT !.events = Append(@, "synchronize")]
    /\ pc' = "s_loop"
    /\ UNCHANGED <<args, ffmpegOk, error, is_video, paths, scratch, reader, idx,
                   cur, extension, que, cons, files, remux, stream>>

\* C15's mutant: the encoder is shut down before the decoder.
ShutdownEncoderFirst(video) ==
    <<"encoder.stdin.close", "encoder.wait">>
    \o (IF video THEN <<"decoder.stdin.close", "decoder.wait">> ELSE <<>>)

\* Lines 132-136, the calls that follow the loop of inference_stream.
Shutdown(video) ==
    (IF video THEN <<"decoder.stdin.close", "decoder.wait">> ELSE <<>>)
    \o <<"encoder.stdin.close", "encoder.wait">>

\* Lines 132-136: the decoder's stdin is closed and the decoder waited for
\* (video only), then the same for the encoder.
StreamClose ==
    /\ pc = "s_close"
    /\ stream' = [stream EXCEPT !.decoder = IF is_video THEN "closed" ELSE @,
                                !.encoder = "closed"]
    /\ log' = [log EXCEPT !.events = @ \o Shutdown(is_video)]
    /\ pc' = "done"
    /\ UNCHANGED <<args, ffmpegOk, error, is_video, paths, scratch, reader, idx,
                   cur, extension, que, cons, files, remux>>

\* ------------------------------------------------------------ specification
\* The main thread outside the two pipelines, in file mode, in stream mode.
MainStart == MainSetup \/ GetFrames

MainFrames ==
    \/ FramesSetup
    \/ FramesNext
    \/ FramesEnhance
    \/ FramesSync
    \/ FramesPutQuit
    \/ FramesJoin
    \/ FramesMerge
    \/ FramesCleanup

MainStream ==
    \/ StreamSetup
    \/ StreamRead
    \/ StreamEnhance
    \/ StreamSync
    \/ StreamClose

ReaderThread == ReaderLoad \/ ReaderEnd

ConsumerThread(c) == ConsumerGet(c) \/ ConsumerWrite(c)

Next ==
    \/ MainStart
    \/ MainFrames
    \/ MainStream
    \/ ReaderThread
    \/ \E c \in 1..MaxConsumer : ConsumerThread(c)

Spec == Init /\ [][Next]_vars

\* The runs without --stream, --ext and --fps: file mode on every input,
\* every frame list, every K and every set of failing frames.
InitFrames == Init /\ ~args.stream /\ args.ext = <<"auto">> /\ args.fps = NoFps

NextFrames ==
    \/ MainStart
    \/ MainFrames
    \/ ReaderThread
    \/ \E c \in 1..MaxConsumer : ConsumerThread(c)

\* Every thread that can take a step eventually takes one: the threads are
\* operating-system threads, none of which is starved.
Fairness ==
    /\ WF_vars(MainStart \/ MainFrames)
    /\ WF_vars(ReaderThread)
    /\ \A c \in 1..MaxConsumer : WF_vars(ConsumerThread(c))

FairFramesSpec == InitFrames /\ [][NextFrames]_vars /\ Fairness

\* The runs with --stream: every input, --ext, --fps and K (the last three
\* are not read in this mode), every source size and scale, every outcome of
\* the reads and of the engine.
InitStream == Init /\ args.stream

NextStream ==
    \/ MainStart
    \/ MainStream

StreamSpec == InitStream /\ [][NextStream]_vars

\* ================================================================== claims
FileMode == ~args.stream
AllConsumersDone ==
    /\ DOMAIN cons = 1..args.consumer
    /\ \A c \in DOMAIN cons : cons[c].st = "done"
Records(s) == { i \in 1..Len(s) : s[i].kind = "rec" }
Sentinels(s) == { i \in 1..Len(s) : s[i] = Quit }
\* The engine raised on some frame.
SomeFailed == \E i \in 1..Len(log.outcomes) : log.outcomes[i] = "fail"

\* ---- C1
\* At no time are more than K sentinels put, and none before a result
\* record; once the loop of line 192 is over exactly K are put.  A consumer
\* that has exited took one sentinel: those left on the queue are K minus
\* the consumers that are done.
C1_Safe ==
    FileMode =>
        /\ Cardinality(Sentinels(log.puts)) <= args.consumer
        /\ \A i \in Sentinels(log.puts) : \A j \in Records(log.puts) : j < i
        /\ pc \in {"f_join", "f_merge", "f_clean", "done"}
              => Cardinality(Sentinels(log.puts)) = args.consumer
        /\ pc \in {"f_quit", "f_join", "f_merge", "f_clean", "done"} /\ cons # <<>>
              => Cardinality(Sentinels(que))
                   = Cardinality(Sentinels(log.puts))
                     - Cardinality({ c \in DOMAIN cons : cons[c].st = "done" })

WritesOf(i) == Cardinality({ w \in 1..Len(log.writes) : log.writes[w].src = i })

\* C2: in file mode with K >= 1, once all consumers have exited, each frame
\* the engine returned for was saved exactly once and each frame it raised
\* on was never saved; at no time is a frame saved twice or a failed frame
\* saved.
C2_SavesExact ==
    FileMode =>
        /\ \A w \in 1..Len(log.writes) :
              /\ log.writes[w].src \in 1..Len(log.outcomes)
              /\ log.outcomes[log.writes[w].src] = "ok"
              /\ WritesOf(log.writes[w].src) = 1
        /\ (args.consumer >= 1 /\ AllConsumersDone)
              => /\ Len(log.outcomes) = Len(paths)
                 /\ \A i \in 1..Len(paths) :
                       WritesOf(i) = IF log.outcomes[i] = "ok" THEN 1 ELSE 0

\* Two consumers have exited after two frames, one saved and one failed.
C2_Witness ==
    /\ FileMode /\ args.consumer = 2 /\ AllConsumersDone
    /\ Len(paths) = 2 /\ SomeFailed /\ Len(log.writes) = 1

\* ---- C3
\* C3: at the end of a stream-mode run on a video as many frames were
\* written to the encode pipe as were read from the decode pipe, whatever
\* the engine did on each frame.
C3_NoFrameDropped ==
    (args.stream /\ is_video /\ pc = "done") => Len(stream.written) = stream.nread

\* ---- C4
\* The root of a file name, and the root of the name it is saved under.
Root(n) == SplitExt(Basename(n))[1]

\* C4: a file-mode run on a folder of M >= 1 frames with K >= 1 consumers and
\* an engine that never fails ends without an error and leaves exactly M
\* files in the output location, one {basename}_out.{ext} per input frame.
C4_FolderRun ==
    (/\ FileMode /\ IsFolder(args.input) /\ log.listed # {}
     /\ args.consumer >= 1 /\ ~SomeFailed
     /\ pc \in {"done", "failed"})
    => /\ pc = "done" /\ error = NoError
       /\ Cardinality(files) = Cardinality(log.listed)
       /\ \A n \in log.listed :
             \E f \in files : Root(f.path) = Root(n) \o <<"_out">>

\* ---- C5
\* What the output folder holds when the records put on the queue are written
\* one after the other in queue order (the run of a single consumer, and one
\* of the runs of any K >= 1 consumers).
InOrderFiles ==
    LET recs == Records(log.puts)
        last(i) == \A j \in recs : log.puts[j].save_path = log.puts[i].save_path => j <= i
    IN  { [path |-> log.puts[i].save_path, buf |-> log.puts[i].output] :
            i \in { k \in recs : last(k) } }

\* C5: for a fixed frame list, configuration and engine, the saved frame
\* files (path -> buffer) are the same in every execution.  In-order writing
\* is one execution, so this says that every execution that has joined its
\* K >= 1 consumers holds what in-order writing leaves.
C5_Deterministic ==
    (FileMode /\ pc = "f_merge" /\ args.consumer >= 1) => files = InOrderFiles

\* ---- C6
\* What follows the last dot of a path.
AfterLastDot(s) ==
    LET dots == { i \in 1..Len(s) : s[i] = Dot }
    IN  IF dots = {} THEN <<>> ELSE SubSeq(s, Max(dots) + 1, Len(s))

\* C6: a frame the engine returned for is put on the queue with a save path
\* whose extension is png when the frame has an alpha channel, else the
\* source file's extension without its dot when --ext is auto, else --ext.
C6_ExtensionPolicy ==
    (FileMode /\ pc = "f_sync" /\ log.outcomes[Len(log.outcomes)] = "ok")
    => LET m == log.puts[Len(log.puts)]
       IN  /\ m.kind = "rec"
           /\ AfterLastDot(m.save_path)
                = IF cur.img.alpha THEN <<"png">>
                  ELSE IF args.ext = <<"auto">> THEN AfterLastDot(cur.path)
                  ELSE args.ext

\* A jpg frame with an alpha channel was enhanced under --ext jpg.
C6_Witness ==
    /\ FileMode /\ pc = "f_sync" /\ log.outcomes[Len(log.outcomes)] = "ok"
    /\ cur.img.alpha /\ args.ext = <<"jpg">>
    /\ AfterLastDot(cur.path) = <<"jpg">>

\* ---- C7
\* C7: the i-th frame the enhancement loop takes holds the pixels of the
\* i-th path and is paired with that path, each result is saved under the
\* name of the path its pixels came from, and the loop ends only after the
\* last path.
C7_PathOrder ==
    FileMode =>
        /\ pc \in {"f_enhance", "f_sync"}
              => /\ idx \in 1..Len(paths)
                 /\ cur.img.src = idx
                 /\ cur.path = paths[idx]
                 /\ Len(log.outcomes) \in {idx - 1, idx}
        /\ \A i \in Records(log.puts) :
              Root(log.puts[i].save_path) = Root(paths[log.puts[i].output]) \o <<"_out">>
        /\ pc \in {"f_quit", "f_join", "f_merge", "f_clean", "done"}
              => idx = Len(paths) /\ Len(log.outcomes) = Len(paths)

\* The loop has ended after two frames of a folder, both put on the queue.
C7_Witness ==
    /\ FileMode /\ pc = "f_quit" /\ Len(paths) = 2 /\ IsFolder(args.input)
    /\ Cardinality(Records(log.puts)) = 2

\* ---- C8
\* get_frames has returned, or has raised.
GetFramesReturned == pc \in {"f_setup", "s_setup"}
GetFramesRaised == pc = "failed" /\ error.at = "get_frames"

\* C8: for a folder, get_frames returns (False, the folder's entries in
\* lexicographic order), or raises when there is no entry (here any
\* exception is taken for the empty-input error); for an image it returns
\* the one path; for a video whose frames are not extracted, what it
\* returns holds no path.
C8_Discovery ==
    (GetFramesReturned \/ GetFramesRaised) =>
        /\ IsFolder(args.input) =>
              IF log.listed = {}
              THEN GetFramesRaised
              ELSE /\ GetFramesReturned /\ ~is_video
                   /\ { paths[i] : i \in 1..Len(paths) }
                        = { Join(args.input, n) : n \in log.listed }
                   /\ Len(paths) = Cardinality(log.listed)
                   /\ \A i, j \in 1..Len(paths) : i < j => StrLess(paths[i], paths[j])
        /\ args.input = <<"a", Dot, "png">>
              => GetFramesReturned /\ ~is_video /\ paths = <<args.input>>
        /\ (args.input = <<"clip", Dot, "mp4">> /\ args.stream /\ GetFramesReturned)
              => is_video /\ paths = <<>>

\* ---- C9
NothingProcessed ==
    /\ log.outcomes = <<>> /\ Records(log.puts) = {} /\ log.writes = <<>>
    /\ stream.written = <<>>

\* C9: when the weights file is missing, the input folder is empty or the
\* ffmpeg binary is missing, the run ends in a failure, and no engine call,
\* no put of a result and no write of a frame happens in it.
C9_SetupAborts ==
    /\ (error.at = "main" \/ error.type = "AssertionError")
          => pc = "failed" /\ NothingProcessed
    /\ ~ffmpegOk => pc # "done" /\ NothingProcessed

\* ---- C10
\* C10: when the file-mode run has ended after its remux step, the scratch
\* folders are gone whether the remux succeeded or failed, and a failed
\* remux has made the run end in an error.
C10_CleanupAndReport ==
    (FileMode /\ pc \in {"done", "failed"} /\ remux # "none")
    => /\ scratch = {}
       /\ remux = "fail" => error # NoError

\* ---- C11
\* The stream loop ended on a read of fewer bytes than a frame.
ShortReadAbort == args.stream /\ pc = "failed" /\ error.at = "s_loop"

\* C11: when a read from the decode pipe returns fewer bytes than a frame,
\* the run aborts: every frame the engine saw was read whole, and when the
\* run has ended the pipes of the decoder and of the encoder are closed.
C11_ShortReadCloses ==
    ShortReadAbort
    => /\ Len(log.outcomes) = stream.nread
       /\ stream.decoder = "closed"
       /\ stream.encoder = "closed"

\* ---- C12
\* C12: when get_frames returns, args.fps is the given --fps if there is
\* one, for every kind of input; else, for a video, a rate the probe
\* reports; else 24.  No other step changes args.fps.
C12_FpsResolution ==
    [][IF pc = "get_frames" /\ pc' \in {"f_setup", "s_setup"}
       THEN IF args.fps # NoFps THEN args'.fps = args.fps
            ELSE IF GuessType(args.input) = "video" THEN args'.fps \in ProbeChoices
            ELSE args'.fps = <<24>>
       ELSE args'.fps = args.fps]_vars

\* get_frames has returned for a video with --fps 30 given.
C12_Witness ==
    /\ GetFramesReturned /\ is_video /\ ffmpegOk /\ args.fps = <<30>>

\* ---- C13
\* The strings that name a frame of the run: an index, or a path.
FrameIds ==
    { <<ToString(i)>> : i \in 0..MaxFrames } \cup { paths[i] : i \in 1..Len(paths) }

\* C13: when the engine has raised on a frame, in file mode or in stream
\* mode, a printed line names a frame, by its index or by its path.
C13_FailureNamesFrame ==
    SomeFailed =>
        \E l \in 1..Len(log.printed) :
            \E k \in 1..Len(log.printed[l]) : log.printed[l][k] \in FrameIds

\* ---- C14
Positions(e, what) == { k \in 1..Len(e) : e[k] = what }

\* C14: in both modes one barrier, and only one, follows every call of the
\* engine before the next call; none precedes the first call; in file mode
\* the barrier of a frame comes before the timer record of that frame.
C14_OneBarrierPerFrame ==
    LET e    == log.events
        eng  == Positions(e, "enhance")
        syn  == Positions(e, "synchronize")
        rec  == Positions(e, "record")
        \* the barriers after call g and before the next call
        after(g) == { s \in syn : g < s /\ \A h \in eng : h > g => s < h }
    IN  /\ \A s \in syn : \E g \in eng : g < s
        /\ \A g \in eng :
              IF (\E h \in eng : h > g) \/ pc \notin {"f_sync", "s_sync"}
              THEN Cardinality(after(g)) = 1
              ELSE after(g) = {}
        /\ \A r \in rec : \E g \in eng : \E s \in after(g) : g < s /\ s < r
                                           /\ \A h \in eng : h > g => r < h
        /\ Cardinality(rec) <= Cardinality(eng)
        /\ pc \in {"f_loop", "f_quit"} => Cardinality(rec) = Cardinality(eng)

\* Two frames were attempted in file mode, the first of which failed, and
\* the second iteration has ended.
C14_Witness ==
    /\ FileMode /\ pc = "f_loop" /\ Len(log.outcomes) = 2
    /\ log.outcomes[1] = "fail"
    /\ Cardinality(Positions(log.events, "synchronize")) = 2

\* ---- C15
\* C15: in stream mode the pipes are shut down only after the loop has
\* broken on end of stream; the decoder (video only) is closed and waited
\* for before the encoder is closed and waited for; every write to the
\* encoder precedes the close of its input and none follows it.
C15_ShutdownOrder ==
    LET e     == log.events
        brk   == Positions(e, "break")
        dcl   == Positions(e, "decoder.stdin.close")
        dwt   == Positions(e, "decoder.wait")
        ecl   == Positions(e, "encoder.stdin.close")
        ewt   == Positions(e, "encoder.wait")
        wr    == Positions(e, "write")
        Before(A, B) == \A b \in B : \E a \in A : a < b
        AllBefore(A, B) == \A a \in A : \A b \in B : a < b
    IN  args.stream =>
          /\ Before(brk, dcl \cup dwt \cup ecl \cup ewt)
          /\ Before(dcl, dwt) /\ AllBefore(dwt, ecl) /\ Before(ecl, ewt)
          /\ is_video => Before(dwt, ecl)
          /\ ~is_video => dcl \cup dwt = {}
          /\ AllBefore(wr, ecl)
          /\ Cardinality(wr) = Len(stream.written)
          /\ (stream.encoder = "closed") = (ecl # {})
          /\ (stream.decoder = "closed") = (dcl # {})

\* A video was streamed to its end with a frame written, and both pipes
\* were shut down.
C15_Witness ==
    /\ args.stream /\ is_video /\ pc = "done"
    /\ Len(stream.written) >= 1
    /\ stream.decoder = "closed" /\ stream.encoder = "closed"

\* ---- C16
\* C16: in file mode each consumer writes the frames it dequeued in
\* strictly increasing frame order.
C16_PerConsumerOrder ==
    FileMode =>
        \A i, j \in 1..Len(log.writes) :
            (i < j /\ log.writes[i].by = log.writes[j].by)
                => log.writes[i].src < log.writes[j].src

\* With two consumers the second frame's write has completed before the
\* first frame's: the writes are out of frame order across consumers.
C16_Witness ==
    /\ FileMode /\ args.consumer >= 2
    /\ \E i, j \in 1..Len(log.writes) :
          /\ i < j
          /\ log.writes[i].src > log.writes[j].src
          /\ log.writes[i].by # log.writes[j].by

\* ---- C17
EncoderConfigured == args.stream /\ stream.encoder # "none"

\* C17 as stated: the encoder is given round(width * outscale) by
\* round(height * outscale).
C17_OutSizeRounded ==
    EncoderConfigured =>
        /\ stream.out_width = OutSizeRound(stream.width, stream.outscale)
        /\ stream.out_height = OutSizeRound(stream.height, stream.outscale)

\* C17 amended: the encoder is given the integer parts of width * outscale
\* and height * outscale: the largest integers not above the products.
C17_OutSizeTruncated ==
    EncoderConfigured =>
        LET n == stream.outscale[1]
            d == stream.outscale[2]
        IN  /\ stream.out_width * d <= stream.width * n
            /\ stream.width * n < (stream.out_width + 1) * d
            /\ stream.out_height * d <= stream.height * n
            /\ stream.height * n < (stream.out_height + 1) * d

\* The encoder was set up for a source whose scaled width has a fractional
\* part of one half, where cutting and rounding differ.
C17_Witness ==
    /\ EncoderConfigured
    /\ 2 * ((stream.width * stream.outscale[1]) % stream.outscale[2])
          = stream.outscale[2]
    /\ stream.out_width # OutSizeRound(stream.width, stream.outscale)

\* ---- C18
\* The merge command has been reached: it is about to run, has run, or has
\* raised.
MergeReached ==
    \/ pc \in {"f_merge", "f_clean"}
    \/ pc = "done"
    \/ pc = "failed" /\ error.at = "f_merge"

\* C18: in file mode, once the merge step is reached all consumers have
\* exited, every record that was put on the queue has been written to disk
\* and none is left in the queue or in a consumer's hands.
C18_MergeAfterWrites ==
    (FileMode /\ MergeReached) =>
        /\ AllConsumersDone
        /\ Records(que) = {}
        /\ \A i \in Records(log.puts) :
              \E w \in 1..Len(log.writes) : log.writes[w].src = log.puts[i].output

\* ---- C19
\* C19: in file mode, when the merge command is built the variable
\* `extension` is bound and is the extension, without dot, of the save path
\* of every frame that was put on the queue.
C19_MergeExtension ==
    (FileMode /\ pc = "f_merge") =>
        /\ extension # Unbound
        /\ \A i \in Records(log.puts) : AfterLastDot(log.puts[i].save_path) = extension

\* ---- C20
\* C20: in file mode, no two result records of a run carry the same save
\* path.
C20_DistinctSavePaths ==
    FileMode =>
        \A i, j \in Records(log.puts) :
            i # j => log.puts[i].save_path # log.puts[j].save_path
====
